---- MODULE Spec2Model ----
(***************************************************************************)
(* Model of the kubernetes registry watcher (src/watcher.go): the pod      *)
(* cache, the diff of a pod's annotations against its cached snapshot, the *)
(* event dispatcher run by the background goroutine, and the Next/Stop     *)
(* interface over the unbuffered result channel.                           *)
(***************************************************************************)
EXTENDS Naturals, Sequences, FiniteSets, TLC

VARIABLES
    pc,           \* position of the background goroutine and of each Stop() caller
    pods,         \* k.pods: pod name -> cached pod record (absent names not in DOMAIN)
    next,         \* k.next: "open" or "closed" (a parked sender is pc["bg"] = "parked")
    once,         \* k.Once: TRUE once Do has run its function
    stream,       \* watcher.ResultChan(): "open" or "closed"
    nEvents,      \* number of events received from the stream so far
    event,        \* handleEvent: the event being handled
    pod,          \* handleEvent: the pod unmarshalled from the event
    cache,        \* handleEvent: the cached pod looked up for it (Modified)
    results,      \* handleEvent: the results to push, in order
    sent,         \* handleEvent: how many of them were handed over
    cpc,          \* the consumer: "idle" or "waiting" inside Next()
    ret,          \* what the consumer's last Next() returned
    log,          \* history: every result returned by Next(), in order
    stopReturned, \* history: some Stop() call has returned
    afterStop,    \* history: the consumer's current/last Next() began after that
    doCalls,      \* history: per process, what its k.Do(...) did
    fault,        \* "none", or the panic that ended the process
    arg,          \* reconcile harness: the (pod, cache) pair under test
    out           \* reconcile harness: what buildPodResults returned for it

vars == <<pc, pods, next, once, stream, nEvents, event, pod, cache, results,
          sent, cpc, ret, log, stopReturned, afterStop, doCalls, fault, arg, out>>

-----------------------------------------------------------------------------
(* Bounds *)

\* number of events the upstream stream delivers before it stays silent
MaxEvents == 2

-----------------------------------------------------------------------------
(* Data *)

\* a nil *string
Nil == "nil"

\* a nil *client.Pod
NilPod == [nil |-> TRUE]

\* var deleteAction = "delete"
deleteAction == "delete"

\* the phase of a running pod
podRunning == "Running"

\* the prefix of the annotation keys that carry a service (a key is the
\* sequence of its parts, so that the prefix test is computed)
annotationServiceKeyPrefix == <<"micro.svc">>

\* strings.HasPrefix
HasPrefix(s, prefix) ==
    /\ Len(s) >= Len(prefix)
    /\ SubSeq(s, 1, Len(prefix)) = prefix

KeyWeb == <<"micro.svc", "web">>
KeyApi == <<"micro.svc", "api">>
KeyOwner == <<"owner">>
Keys == {KeyWeb, KeyApi, KeyOwner}

\* annotation values: two service descriptors and a text that is not JSON
Strs == {"{svc:1}", "{svc:2}", "junk"}

\* json.Unmarshal of an annotation value into a registry.Service
Unmarshal(str) ==
    CASE str = "{svc:1}" -> [err |-> FALSE, svc |-> [Name |-> "svc", Version |-> "1"]]
      [] str = "{svc:2}" -> [err |-> FALSE, svc |-> [Name |-> "svc", Version |-> "2"]]
      [] OTHER -> [err |-> TRUE, svc |-> [Name |-> "", Version |-> ""]]

\* map[string]*string over the given keys and values
AnnMaps(K, V) == UNION {[S -> V] : S \in SUBSET K}

\* client.Pod records with metadata; obj is the identity of the allocation
\* (two records share their annotation pointers only when they are the same
\* allocation). Status is taken to be present in every record.
PodRecs(names, anns, phases, dels) ==
    {[meta |-> TRUE, name |-> n, ann |-> a, del |-> d, phase |-> p, obj |-> 0] :
        n \in names, a \in anns, p \in phases, d \in dels}

\* a client.Pod whose Metadata is nil
NoMeta(p) ==
    [meta |-> FALSE, name |-> "", ann |-> <<>>, del |-> "", phase |-> p, obj |-> 0]

Phases == {podRunning, "Pending"}

\* every pod record of the model: each key absent, nil or any value
Pods ==
    PodRecs({"a"}, AnnMaps(Keys \ {KeyOwner}, Strs \cup {Nil}), Phases, {"", "t"})
    \cup PodRecs({"a"}, {a \in AnnMaps(Keys, {"{svc:1}"}) : KeyOwner \in DOMAIN a},
                 Phases, {""})
    \cup {NoMeta(p) : p \in Phases}

\* the pointer held under key k of a pod's annotations
Ptr(p, k) == IF p.ann[k] = Nil THEN <<>> ELSE <<p.obj, k>>

\* all orders in which a range over a map can visit a set of entries
RECURSIVE Orders(_)
Orders(S) ==
    IF S = {} THEN {<<>>}
    ELSE UNION {{<<x>> \o s : s \in Orders(S \ {x})} : x \in S}

-----------------------------------------------------------------------------
(* The diff: podBuildResult and buildPodResults *)

\* podBuildResult, lines 242-249: the cached pointer under the key is the
\* annotation's pointer
Identical(p, c, k) ==
    /\ c # NilPod /\ c.meta
    /\ k \in DOMAIN c.ann
    /\ c.ann[k] # Nil
    /\ Ptr(c, k) = Ptr(p, k)

\* podBuildResult, lines 252-256
cacheExists(c, k) == c # NilPod /\ c.meta /\ k \in DOMAIN c.ann

\* ignoreKeys without the prefix test
ignoreKeysAnyPrefix(p) == {k \in DOMAIN p.ann : p.ann[k] # Nil}

\* ignoreKeys that marks a key before testing its value for nil
ignoreKeysMarkNil(p) ==
    {k \in DOMAIN p.ann : HasPrefix(k, annotationServiceKeyPrefix)}

\* podBuildResult: the keys it marks in ignore
ignoreKeys(p) ==
    {k \in DOMAIN p.ann : HasPrefix(k, annotationServiceKeyPrefix) /\ p.ann[k] # Nil}

\* podBuildResult: the results of the forward pass, as a set (one per key)
podBuildResult(p, c) ==
    {[Action |-> IF cacheExists(c, k) THEN "update" ELSE "create",
      Service |-> Unmarshal(p.ann[k]).svc, key |-> k] :
        k \in {k \in ignoreKeys(p) :
                  ~Identical(p, c, k) /\ ~Unmarshal(p.ann[k]).err}}

\* buildPodResults, lines 66-86: the cached keys the second loop reaches past
\* the ignore and prefix tests
cacheLoopKeys(p, c) ==
    IF c # NilPod /\ c.meta
    THEN {k \in DOMAIN c.ann :
            /\ ~(p.meta /\ k \in ignoreKeys(p))
            /\ HasPrefix(k, annotationServiceKeyPrefix)}
    ELSE {}

\* buildPodResults: panic says the call dereferenced a nil annotation value
\* (line 80); seqs are the result lists it can return, one per map order
buildPodResults(p, c) ==
    LET fwd == IF p.meta THEN podBuildResult(p, c) ELSE {}
        back == cacheLoopKeys(p, c)
        dels == {[Action |-> deleteAction, Service |-> Unmarshal(c.ann[k]).svc,
                  key |-> k] :
                    k \in {k \in back : c.ann[k] # Nil /\ ~Unmarshal(c.ann[k]).err}}
    IN  [panic |-> \E k \in back : c.ann[k] = Nil,
         seqs |-> {f \o d : f \in Orders(fwd), d \in Orders(dels)}]

-----------------------------------------------------------------------------
(* The environment: the pod listing and the watch events *)

\* the pods the multi-event specification draws from
SmallPods ==
    PodRecs({"a"}, AnnMaps({KeyWeb, KeyApi}, {"{svc:1}"}), Phases, {""})
    \cup {NoMeta(podRunning)}

\* the snapshots the single-event specification seeds the cache with (the code
\* never reads the phase or the deletion timestamp of a cached pod)
SeedPods == {p \in Pods : p.phase = podRunning /\ p.del = ""}

\* an event payload that does not parse into a pod
Garbage == [garbage |-> TRUE]

\* watch.Event: its type and its payload
Events(U) == [type : {"ADDED", "MODIFIED", "DELETED"}, object : U \cup {Garbage}]

\* podList.Items: no pod or one pod
Lists(U) == {<<>>} \cup {<<p>> : p \in U}

NoEvent == [type |-> "", object |-> Garbage]
NoResult == [Action |-> "", Service |-> [Name |-> "", Version |-> ""], key |-> <<>>, ev |-> 0]
NoArg == [pod |-> NilPod, cache |-> NilPod]
NoOut == [panic |-> FALSE, seqs |-> {}, done |-> FALSE]

Stoppers == {"s1"}
Procs == Stoppers \cup {"bg"}

-----------------------------------------------------------------------------
(* Construction *)

Init ==
    /\ pc = [p \in Procs |-> IF p = "bg" THEN "new" ELSE "idle"]
    /\ pods = <<>>
    /\ next = "open"
    /\ once = FALSE
    /\ stream = "open"
    /\ nEvents = 0
    /\ event = NoEvent
    /\ pod = NilPod
    /\ cache = NilPod
    /\ results = <<>>
    /\ sent = 0
    /\ cpc = "idle"
    /\ ret = [err |-> "", r |-> NoResult]
    /\ log = <<>>
    /\ stopReturned = FALSE
    /\ afterStop = FALSE
    /\ doCalls = [p \in Procs |-> "none"]
    /\ fault = "none"
    /\ arg = NoArg
    /\ out = NoOut

\* updateCache, lines 39-48: the cache after the loop over the listed pods
\* (the results of buildPodResults(&pod, nil) are returned and dropped)
updateCache(list) ==
    [n \in {list[i].name : i \in 1..Len(list)} |->
        LET i == CHOOSE i \in 1..Len(list) :
                    /\ list[i].name = n
                    /\ \A j \in (i+1)..Len(list) : list[j].name # n
        IN  list[i]]

\* updateCache, lines 37-43 and 50: the result lists it can return for the
\* listed pods (none of them caused by a watch event: ev is 0)
listResults(list) ==
    IF list = <<>>
    THEN {<<>>}
    ELSE {[i \in 1..Len(seq) |->
             [Action |-> seq[i].Action, Service |-> seq[i].Service,
              key |-> seq[i].key, ev |-> 0]] :
            seq \in buildPodResults(list[1], NilPod).seqs}

\* seedPush that hands the seeding results to the push loop
seedPushAll(rs) == rs

\* newWatcher, line 201: `if _, err := k.updateCache()` drops the results, so
\* none of them is pushed
seedPush(rs) == <<>>

\* newWatcher, lines 193-216: seed the cache and start the background
\* goroutine; pod is the last pod of updateCache's loop
newWatcher(U) ==
    /\ fault = "none"
    /\ pc["bg"] = "new"
    /\ \E list \in Lists(U) :
        /\ pod' = IF list = <<>> THEN NilPod ELSE list[Len(list)]
        /\ IF \E i \in 1..Len(list) : ~list[i].meta
           THEN /\ fault' = "nil dereference"
                /\ UNCHANGED <<pc, pods, results>>
           ELSE /\ pods' = updateCache(list)
                /\ \E rs \in listResults(list) : results' = seedPush(rs)
                /\ pc' = [pc EXCEPT !["bg"] =
                            IF results' = <<>> THEN "range" ELSE "send"]
                /\ UNCHANGED fault
    /\ UNCHANGED <<next, once, stream, nEvents, event, cache, sent,
                   cpc, ret, log, stopReturned, afterStop, doCalls, arg, out>>

-----------------------------------------------------------------------------
(* The event dispatcher: handleEvent, run by the background goroutine *)

\* json.Unmarshal of the event's payload into a fresh client.Pod (lines 94-98)
\* unmarshalPod whose error is not acted on: the zero-valued pod is handled
unmarshalPodErrIgnored(object, id) ==
    IF object = Garbage
    THEN [err |-> FALSE, pod |-> [NoMeta("") EXCEPT !.obj = id]]
    ELSE [err |-> FALSE, pod |-> [object EXCEPT !.obj = id]]

unmarshalPod(object, id) ==
    IF object = Garbage
    THEN [err |-> TRUE, pod |-> NilPod]
    ELSE [err |-> FALSE, pod |-> [object EXCEPT !.obj = id]]

\* k.pods[name] (lines 104-106)
lookup(m, name) == IF name \in DOMAIN m THEN m[name] ELSE NilPod

\* the cache a Modified event diffs against (lines 111-116)
diffCache(p, c) == IF p.phase = podRunning THEN c ELSE NilPod

\* notRunning that looks at the phase alone
notRunningPhaseOnly(p) == p.phase # podRunning

\* line 120: the pod is not running or is being deleted
notRunning(p) == p.phase # podRunning \/ p.del # ""

\* pushAction that overrides the action for Deleted events only
pushActionAsDiffed(type, p, action) ==
    IF type = "DELETED" THEN deleteAction ELSE action

\* the action a result is pushed with (lines 120-122 and 138)
pushAction(type, p, action) ==
    IF type = "DELETED" \/ notRunning(p) THEN deleteAction ELSE action

\* the results as pushed by the loops at lines 118-124 and 137-140; ev records
\* the event that caused them
pushed(seq, type, p, id) ==
    [i \in 1..Len(seq) |->
        [Action |-> pushAction(type, p, seq[i].Action),
         Service |-> seq[i].Service, key |-> seq[i].key, ev |-> id]]

\* pushNext with a loop that stops after its first push
pushNextFirstOnly(rs, n) == IF n >= 1 \/ n >= Len(rs) THEN "update" ELSE "send"

\* where the push loop goes after n of the results were handed over
pushNext(rs, n) == IF n >= Len(rs) THEN "update" ELSE "send"

\* handled that gives Added events a case of the switch
handledAddedToo(type) == type \in {"ADDED", "MODIFIED", "DELETED"}

\* the event types the switch at lines 101-147 has a case for
handled(type) == type \in {"MODIFIED", "DELETED"}

\* for event := range watcher.ResultChan() { k.handleEvent(event) }, up to
\* the first push or to the cache update
handleEvent(U, lim) ==
    /\ fault = "none"
    /\ pc["bg"] = "range"
    /\ stream = "open"
    /\ nEvents < lim
    /\ \E ev \in Events(U) :
        LET id == nEvents + 1
            u == unmarshalPod(ev.object, id)
            p == u.pod
        IN  /\ nEvents' = id
            /\ event' = ev
            /\ sent' = 0
            /\ IF u.err \/ ~handled(ev.type)
               THEN /\ pod' = p
                    /\ cache' = NilPod
                    /\ results' = <<>>
                    /\ UNCHANGED <<pc, fault>>
               ELSE IF ~p.meta
               THEN /\ pod' = p
                    /\ cache' = NilPod
                    /\ results' = <<>>
                    /\ fault' = "nil dereference"
                    /\ UNCHANGED pc
               ELSE LET c == IF ev.type = "MODIFIED" THEN lookup(pods, p.name) ELSE NilPod
                        b == IF ev.type = "MODIFIED"
                             THEN buildPodResults(p, diffCache(p, c))
                             ELSE buildPodResults(p, NilPod)
                    IN  /\ pod' = p
                        /\ cache' = c
                        /\ IF b.panic
                           THEN /\ results' = <<>>
                                /\ fault' = "nil dereference"
                                /\ UNCHANGED pc
                           ELSE /\ \E seq \in b.seqs :
                                    results' = pushed(seq, ev.type, p, id)
                                /\ pc' = [pc EXCEPT !["bg"] = pushNext(results', 0)]
                                /\ UNCHANGED fault
    /\ UNCHANGED <<pods, next, once, stream, cpc, ret, log, stopReturned,
                   afterStop, doCalls, arg, out>>

\* k.next <- result on a closed channel panics
sendClosed ==
    /\ fault = "none"
    /\ pc["bg"] = "send"
    /\ next = "closed"
    /\ fault' = "send on closed channel"
    /\ UNCHANGED <<pc, pods, next, once, stream, nEvents, event, pod, cache, results,
                   sent, cpc, ret, log, stopReturned, afterStop, doCalls, arg, out>>

\* k.next <- result with the consumer waiting in Next(): the result is handed
\* over and Next() returns it
sendHandoff ==
    /\ fault = "none"
    /\ pc["bg"] = "send"
    /\ next = "open"
    /\ cpc = "waiting"
    /\ sent' = sent + 1
    /\ pc' = [pc EXCEPT !["bg"] = pushNext(results, sent + 1)]
    /\ cpc' = "idle"
    /\ ret' = [err |-> "", r |-> results[sent + 1]]
    /\ log' = Append(log, results[sent + 1])
    /\ UNCHANGED <<pods, next, once, stream, nEvents, event, pod, cache, results,
                   stopReturned, afterStop, doCalls, fault, arg, out>>

\* k.next <- result with no receiver: the goroutine parks on the channel
sendPark ==
    /\ fault = "none"
    /\ pc["bg"] = "send"
    /\ next = "open"
    /\ cpc = "idle"
    /\ pc' = [pc EXCEPT !["bg"] = "parked"]
    /\ UNCHANGED <<pods, next, once, stream, nEvents, event, pod, cache, results,
                   sent, cpc, ret, log, stopReturned, afterStop, doCalls, fault,
                   arg, out>>

\* the cache after the event (lines 126-128 and 142-144)
\* setCache that stores the record of a Modified event only for a running,
\* non-terminating pod
setCacheLiveOnly(m, type, p) ==
    CASE type = "MODIFIED" /\ ~notRunning(p) ->
            [n \in DOMAIN m \cup {p.name} |-> IF n = p.name THEN p ELSE m[n]]
      [] type = "DELETED" -> [n \in DOMAIN m \ {p.name} |-> m[n]]
      [] OTHER -> m

setCache(m, type, p) ==
    CASE type = "MODIFIED" ->
            [n \in DOMAIN m \cup {p.name} |-> IF n = p.name THEN p ELSE m[n]]
      [] type = "DELETED" -> [n \in DOMAIN m \ {p.name} |-> m[n]]
      [] OTHER -> m

\* handleEvent after its push loop: update the cache and return to the range
cacheUpdate ==
    /\ fault = "none"
    /\ pc["bg"] = "update"
    /\ pods' = setCache(pods, event.type, pod)
    /\ pc' = [pc EXCEPT !["bg"] = "range"]
    /\ UNCHANGED <<next, once, stream, nEvents, event, pod, cache, results, sent,
                   cpc, ret, log, stopReturned, afterStop, doCalls, fault, arg, out>>

\* the upstream stream ends on its own
streamEnd ==
    /\ fault = "none"
    /\ pc["bg"] # "new"
    /\ stream = "open"
    /\ stream' = "closed"
    /\ UNCHANGED <<pc, pods, next, once, nEvents, event, pod, cache, results, sent,
                   cpc, ret, log, stopReturned, afterStop, doCalls, fault, arg, out>>

\* rangeEnd of a goroutine that returns without calling k.Stop()
rangeEndNoStop ==
    /\ fault = "none"
    /\ pc["bg"] = "range"
    /\ stream = "closed"
    /\ pc' = [pc EXCEPT !["bg"] = "done"]
    /\ UNCHANGED <<pods, next, once, stream, nEvents, event, pod, cache, results,
                   sent, cpc, ret, log, stopReturned, afterStop, doCalls, fault,
                   arg, out>>

\* the range over the closed stream ends: the goroutine reaches k.Stop()
rangeEnd ==
    /\ fault = "none"
    /\ pc["bg"] = "range"
    /\ stream = "closed"
    /\ pc' = [pc EXCEPT !["bg"] = "Stop"]
    /\ UNCHANGED <<pods, next, once, stream, nEvents, event, pod, cache, results,
                   sent, cpc, ret, log, stopReturned, afterStop, doCalls, fault,
                   arg, out>>

-----------------------------------------------------------------------------
(* Stop, called by the background goroutine at stream end and by others *)

\* line 162: k.watcher.Stop() ends the upstream stream
stopWatcher(p) ==
    /\ fault = "none"
    /\ pc["bg"] # "new"
    /\ pc[p] \in IF p = "bg" THEN {"Stop"} ELSE {"idle", "done"}
    /\ stream' = "closed"
    /\ pc' = [pc EXCEPT ![p] = "select"]
    /\ UNCHANGED <<pods, next, once, nEvents, event, pod, cache, results, sent,
                   cpc, ret, log, stopReturned, afterStop, doCalls, fault, arg, out>>

\* lines 164-166, case <-k.next with the background goroutine parked in its
\* send: Stop receives the result, drops it and returns
stopSelectRecv(p) ==
    /\ fault = "none"
    /\ pc[p] = "select"
    /\ pc["bg"] = "parked"
    /\ sent' = sent + 1
    /\ pc' = [pc EXCEPT ![p] = "done", !["bg"] = pushNext(results, sent + 1)]
    /\ stopReturned' = TRUE
    /\ UNCHANGED <<pods, next, once, stream, nEvents, event, pod, cache, results,
                   cpc, ret, log, afterStop, doCalls, fault, arg, out>>

\* lines 164-166, case <-k.next on the closed channel: Stop returns
stopSelectClosed(p) ==
    /\ fault = "none"
    /\ pc[p] = "select"
    /\ pc["bg"] # "parked"
    /\ next = "closed"
    /\ pc' = [pc EXCEPT ![p] = "done"]
    /\ stopReturned' = TRUE
    /\ UNCHANGED <<pods, next, once, stream, nEvents, event, pod, cache, results,
                   sent, cpc, ret, log, afterStop, doCalls, fault, arg, out>>

\* line 167, default: nothing to receive, Stop goes on to k.Do
stopSelectDefault(p) ==
    /\ fault = "none"
    /\ pc[p] = "select"
    /\ pc["bg"] # "parked"
    /\ next = "open"
    /\ pc' = [pc EXCEPT ![p] = "Do"]
    /\ UNCHANGED <<pods, next, once, stream, nEvents, event, pod, cache, results,
                   sent, cpc, ret, log, stopReturned, afterStop, doCalls, fault,
                   arg, out>>

\* onceDone without the run-once guard
onceDoneNever(o) == FALSE

\* sync.Once: whether Do skips its function
onceDone(o) == o

\* lines 168-170, k.Do(func() { close(k.next) }): closing a closed channel
\* panics, and so does the send of a goroutine parked on the channel
stopDo(p) ==
    /\ fault = "none"
    /\ pc[p] = "Do"
    /\ IF onceDone(once)
       THEN /\ doCalls' = [doCalls EXCEPT ![p] = "skipped"]
            /\ pc' = [pc EXCEPT ![p] = "done"]
            /\ stopReturned' = TRUE
            /\ UNCHANGED <<next, once, fault>>
       ELSE /\ once' = TRUE
            /\ doCalls' = [doCalls EXCEPT ![p] = "closed"]
            /\ IF next = "closed"
               THEN /\ fault' = "close of closed channel"
                    /\ UNCHANGED <<next, pc, stopReturned>>
               ELSE /\ next' = "closed"
                    /\ IF pc["bg"] = "parked"
                       THEN /\ fault' = "send on closed channel"
                            /\ UNCHANGED <<pc, stopReturned>>
                       ELSE /\ pc' = [pc EXCEPT ![p] = "done"]
                            /\ stopReturned' = TRUE
                            /\ UNCHANGED fault
    /\ UNCHANGED <<pods, stream, nEvents, event, pod, cache, results, sent, cpc,
                   ret, log, afterStop, arg, out>>

-----------------------------------------------------------------------------
(* Next, called by the consumer *)

closedErr == "result chan closed"

\* r, ok := <-k.next with the background goroutine parked in its send: Next
\* returns the result
nextRecv ==
    /\ fault = "none"
    /\ pc["bg"] = "parked"
    /\ cpc = "idle"
    /\ afterStop' = stopReturned
    /\ sent' = sent + 1
    /\ pc' = [pc EXCEPT !["bg"] = pushNext(results, sent + 1)]
    /\ ret' = [err |-> "", r |-> results[sent + 1]]
    /\ log' = Append(log, results[sent + 1])
    /\ UNCHANGED <<pods, next, once, stream, nEvents, event, pod, cache, results,
                   cpc, stopReturned, doCalls, fault, arg, out>>

\* r, ok := <-k.next with nothing to receive: Next blocks
nextBlock ==
    /\ fault = "none"
    /\ pc["bg"] \notin {"new", "parked"}
    /\ cpc = "idle"
    /\ next = "open"
    /\ afterStop' = stopReturned
    /\ cpc' = "waiting"
    /\ UNCHANGED <<pc, pods, next, once, stream, nEvents, event, pod, cache, results,
                   sent, ret, log, stopReturned, doCalls, fault, arg, out>>

\* r, ok := <-k.next on the closed channel, at the call or while blocked:
\* Next returns the error (lines 153-155)
nextClosed ==
    /\ fault = "none"
    /\ pc["bg"] \notin {"new", "parked"}
    /\ next = "closed"
    /\ afterStop' = IF cpc = "idle" THEN stopReturned ELSE afterStop
    /\ cpc' = "idle"
    /\ ret' = [err |-> closedErr, r |-> NoResult]
    /\ UNCHANGED <<pc, pods, next, once, stream, nEvents, event, pod, cache, results,
                   sent, log, stopReturned, doCalls, fault, arg, out>>

-----------------------------------------------------------------------------
(* Specifications *)

\* the watcher with its consumer and a caller of Stop() (any number of calls,
\* each concurrent with the background goroutine's own), over MaxEvents events
NextOver(U) ==
    \/ newWatcher(U)
    \/ handleEvent(U, MaxEvents)
    \/ sendClosed
    \/ sendHandoff
    \/ sendPark
    \/ cacheUpdate
    \/ streamEnd
    \/ rangeEnd
    \/ \E p \in Procs : stopWatcher(p)
    \/ \E p \in Procs : stopSelectRecv(p)
    \/ \E p \in Procs : stopSelectClosed(p)
    \/ \E p \in Procs : stopSelectDefault(p)
    \/ \E p \in Procs : stopDo(p)
    \/ nextRecv
    \/ nextBlock
    \/ nextClosed

Next == NextOver(SmallPods)

Spec == Init /\ [][Next]_vars

\* one event in full detail: any seeded snapshot, any event, a consumer that
\* pulls, and no Stop() but the background goroutine's own
EvNext ==
    \/ newWatcher(SeedPods)
    \/ handleEvent(Pods, 1)
    \/ sendHandoff
    \/ sendPark
    \/ cacheUpdate
    \/ streamEnd
    \/ rangeEnd
    \/ stopWatcher("bg")
    \/ stopSelectDefault("bg")
    \/ stopDo("bg")
    \/ nextRecv
    \/ nextBlock
    \/ nextClosed

EventSpec == Init /\ [][EvNext]_vars

-----------------------------------------------------------------------------
(* The diff on its own: buildPodResults applied to any pair of records *)

\* the pairs (pod, cache): the cache is nil, another record, or the very
\* same record as the pod
Args ==
    {[pod |-> [p EXCEPT !.obj = 1], cache |-> c] :
        p \in Pods, c \in {NilPod} \cup {[q EXCEPT !.obj = 2] : q \in Pods}}
    \cup {[pod |-> [p EXCEPT !.obj = 1], cache |-> [p EXCEPT !.obj = 1]] : p \in Pods}

FnInit ==
    /\ pc = [p \in Procs |-> "idle"]
    /\ pods = <<>>
    /\ next = "open"
    /\ once = FALSE
    /\ stream = "open"
    /\ nEvents = 0
    /\ event = NoEvent
    /\ pod = NilPod
    /\ cache = NilPod
    /\ results = <<>>
    /\ sent = 0
    /\ cpc = "idle"
    /\ ret = [err |-> "", r |-> NoResult]
    /\ log = <<>>
    /\ stopReturned = FALSE
    /\ afterStop = FALSE
    /\ doCalls = [p \in Procs |-> "none"]
    /\ fault = "none"
    /\ arg \in Args
    /\ out = NoOut

\* results := k.buildPodResults(pod, cache)
reconcile ==
    /\ ~out.done
    /\ LET b == buildPodResults(arg.pod, arg.cache)
       IN  out' = [panic |-> b.panic, seqs |-> IF b.panic THEN {} ELSE b.seqs,
                   done |-> TRUE]
    /\ UNCHANGED <<pc, pods, next, once, stream, nEvents, event, pod, cache, results,
                   sent, cpc, ret, log, stopReturned, afterStop, doCalls, fault, arg>>

FnNext == reconcile

FnSpec == FnInit /\ [][FnNext]_vars

-----------------------------------------------------------------------------
(* Fairness: the Go scheduler runs a goroutine that can run, so the steps of *)
(* the background goroutine and of a consumer that keeps calling Next() are  *)
(* taken; the upstream events and the other callers of Stop() are free.      *)

bgStep ==
    \/ sendClosed
    \/ sendHandoff
    \/ sendPark
    \/ cacheUpdate
    \/ rangeEnd
    \/ stopWatcher("bg")
    \/ stopSelectClosed("bg")
    \/ stopSelectDefault("bg")
    \/ stopDo("bg")

consumerStep == nextRecv \/ nextBlock \/ nextClosed

\* the pods of the fair specification: running pods with no or two services
\* (events of no, and of several, results), and a pod without metadata
LivePods ==
    {p \in SmallPods :
        /\ p.phase = podRunning
        /\ (KeyWeb \in DOMAIN p.ann <=> KeyApi \in DOMAIN p.ann)}

LiveNext == NextOver(LivePods)

LiveSpec ==
    Init /\ [][LiveNext]_vars /\ WF_vars(bgStep) /\ WF_vars(consumerStep)

-----------------------------------------------------------------------------
(* What the claims speak of *)

\* the service-marker keys of a record
SvcKeys(p) ==
    IF p # NilPod /\ p.meta
    THEN {k \in DOMAIN p.ann : HasPrefix(k, annotationServiceKeyPrefix)}
    ELSE {}

\* the service-marker keys of a record whose value is present and decodes
Decodable(p) == {k \in SvcKeys(p) : p.ann[k] # Nil /\ ~Unmarshal(p.ann[k]).err}

\* one result of the given action per key of K, carrying p's value under it
Want(action, p, K) ==
    {[Action |-> action, Service |-> Unmarshal(p.ann[k]).svc, key |-> k] : k \in K}

\* the results of a list, without the event they belong to
Plain(seq) ==
    {[Action |-> seq[i].Action, Service |-> seq[i].Service, key |-> seq[i].key] :
        i \in 1..Len(seq)}

\* the list holds exactly the results of S, each once
Exactly(seq, S) == Plain(seq) = S /\ Len(seq) = Cardinality(S)

\* the background goroutine has just handled a Modified event for a pod with
\* metadata (or faulted in it)
ModifiedHandled ==
    /\ event.type = "MODIFIED"
    /\ pod # NilPod
    /\ pod.meta

-----------------------------------------------------------------------------
(* Claims *)

\* C1: once a Stop() call has returned, every Next() call that begins
\* afterwards returns the closed-channel error, never a result.
C1_NextAfterStopIsClosed ==
    (cpc = "idle" /\ afterStop) => ret.err = closedErr

\* C2: however many Stop() calls run, one after another or concurrently with
\* the background goroutine's own, the channel is closed at most once and no
\* call closes a closed channel.
C2_ClosedAtMostOnce ==
    /\ fault # "close of closed channel"
    /\ Cardinality({p \in Procs : doCalls[p] = "closed"}) <= 1

\* C2 witness: two Stop() calls both went through k.Do and returned
C2_Witness ==
    /\ fault = "none"
    /\ \A p \in Procs : pc[p] = "done" /\ doCalls[p] # "none"

\* C3: when the background goroutine finds the stream ended, it calls Stop()
\* and a consumer that keeps calling Next() gets the closed-channel error.
C3_StreamEndUnblocksNext ==
    (stream = "closed" /\ pc["bg"] = "range" /\ fault = "none") ~> (ret.err = closedErr)

\* C3 witness: the stream ended on its own, the background goroutine closed
\* the channel in its Stop() and Next() returned the error
C3_Witness ==
    /\ pc["bg"] = "done"
    /\ doCalls["bg"] = "closed"
    /\ pc["s1"] = "idle"
    /\ ret.err = closedErr

\* C4: Next() returns results in the order of their events, and an event's
\* cache update comes only after all of its results were handed over.
C4_OrderedDelivery ==
    /\ \A i, j \in 1..Len(log) : i < j => log[i].ev <= log[j].ev
    /\ \A i \in 1..Len(log) : log[i].ev <= nEvents
    /\ pc["bg"] = "update" => sent = Len(results)
    /\ (pc["bg"] \in {"send", "parked"} /\ event.type = "MODIFIED")
          => lookup(pods, pod.name) = cache

\* C4 witness: results of a first and of a second event were delivered and
\* the second event's cache update is done
C4_Witness ==
    /\ Len(log) >= 3
    /\ log[1].ev = 1
    /\ log[Len(log)].ev = 2
    /\ pc["bg"] = "range"
    /\ lookup(pods, "a") = pod


\* the service-marker keys of a record that carry a value
HasValue(p) == {k \in SvcKeys(p) : p.ann[k] # Nil}

\* C5: a Modified event for a running, non-terminating pod with a cached
\* snapshot, handled without a fault, pushes exactly one create per decodable
\* key new to the pod, one update per decodable key in both with a different
\* value, one delete per decodable cached key that the pod no longer carries,
\* and nothing else.
C5_ModifiedDiffExact ==
    (/\ ModifiedHandled
     /\ ~notRunning(pod)
     /\ cache # NilPod
     /\ fault = "none")
    => Exactly(results,
            Want("create", pod, Decodable(pod) \ SvcKeys(cache))
            \cup Want("update", pod,
                    {k \in Decodable(pod) \cap SvcKeys(cache) : pod.ann[k] # cache.ann[k]})
            \cup Want("delete", cache, Decodable(cache) \ HasValue(pod)))

\* the service-marker annotations of two records are the same, key for key
SameSvcAnnotations(p, c) ==
    /\ SvcKeys(p) = SvcKeys(c)
    /\ \A k \in SvcKeys(p) : p.ann[k] = c.ann[k]

\* C6: a Modified event for a running, non-terminating pod that re-delivers
\* the cached service annotations unchanged pushes nothing.
C6_UnchangedPushesNothing ==
    (/\ ModifiedHandled
     /\ ~notRunning(pod)
     /\ cache # NilPod
     /\ SameSvcAnnotations(pod, cache))
    => results = <<>>

\* C7: reconcile(P, P), the same record as current and prior, completes and
\* produces no result, whatever P's annotations.
C7_SelfDiffEmpty ==
    (out.done /\ arg.cache = arg.pod) => (~out.panic /\ out.seqs = {<<>>})

\* C8: reconcile(P, absent) produces exactly one create per service-marker
\* annotation of P whose value is present and decodes, and nothing else.
C8_FirstSightCreates ==
    (out.done /\ arg.cache = NilPod)
    => /\ ~out.panic
       /\ out.seqs # {}
       /\ \A seq \in out.seqs :
            Exactly(seq, Want("create", arg.pod, Decodable(arg.pod)))

\* C8 witness: a record with a decodable service annotation and one that
\* does not decode was reconciled with no prior
C8_Witness ==
    /\ out.done
    /\ arg.cache = NilPod
    /\ Cardinality(Decodable(arg.pod)) = 1
    /\ Cardinality(SvcKeys(arg.pod)) = 2
    /\ \A seq \in out.seqs : Len(seq) = 1

\* C9: reconcile of a record without metadata or without service-marker
\* annotations against a prior snapshot produces exactly one delete per
\* decodable service-marker annotation of the prior, and nothing else.
C9_DeletionComplete ==
    (/\ out.done
     /\ arg.cache # NilPod
     /\ arg.cache.meta
     /\ SvcKeys(arg.pod) = {})
    => /\ ~out.panic
       /\ out.seqs # {}
       /\ \A seq \in out.seqs :
            Exactly(seq, Want("delete", arg.cache, Decodable(arg.cache)))

\* C10: a Modified event that takes a cached running pod to a non-running
\* phase with its annotations unchanged pushes one delete per decodable
\* service-marker annotation of the pod, and the consumer gets them all.
C10_PhaseChangeDeletes ==
    (/\ ModifiedHandled
     /\ pod.phase # podRunning
     /\ cache # NilPod
     /\ cache.phase = podRunning
     /\ pod.ann = cache.ann)
    => /\ fault = "none"
       /\ Exactly(results, Want("delete", cache, Decodable(cache)))
       /\ pc["bg"] \notin {"send", "parked"} => log = results

\* C10 witness: such an event for a pod with two decodable services was
\* handled and both deletes reached the consumer
C10_Witness ==
    /\ ModifiedHandled
    /\ pod.phase # podRunning
    /\ cache # NilPod
    /\ pod.ann = cache.ann
    /\ Cardinality(Decodable(cache)) = 2
    /\ pc["bg"] = "range"
    /\ Len(log) = 2

\* C11: every result pushed for a Deleted event, and every result pushed for
\* a Modified event whose pod is not running or has a deletion timestamp,
\* has the action delete; a create or an update reaches the consumer only
\* from a Modified event for a running pod without a deletion timestamp.
C11_OnlyDeletesUnlessLive ==
    /\ \A i \in 1..Len(results) :
          (event.type = "DELETED" \/ pod.phase # podRunning \/ pod.del # "")
              => results[i].Action = deleteAction
    /\ \A i \in 1..Len(log) :
          log[i].Action # deleteAction
              => (event.type = "MODIFIED" /\ pod.phase = podRunning /\ pod.del = "")

\* C11 witness: a Modified event for a running pod with a deletion timestamp
\* and a service new to the cache was handled, and its result reached the
\* consumer as a delete
C11_Witness ==
    /\ ModifiedHandled
    /\ pod.phase = podRunning
    /\ pod.del # ""
    /\ cache # NilPod
    /\ Decodable(pod) \ SvcKeys(cache) # {}
    /\ pc["bg"] = "range"
    /\ Len(log) >= 1
    /\ \A i \in 1..Len(log) : log[i].Action = deleteAction

\* C12: an event whose payload cannot be parsed as a pod is dropped whole:
\* no result is pushed or delivered for it, the cache is left as it was,
\* nothing faults, and the background goroutine is back at the stream, ready
\* to take the next event.
C12_GarbageDropped ==
    /\ []((event.object = Garbage /\ nEvents >= 1)
            => /\ results = <<>>
               /\ fault = "none"
               /\ pc["bg"] \notin {"send", "parked", "update"}
               /\ (pc["bg"] = "range" /\ stream = "open" /\ nEvents < MaxEvents)
                     => ENABLED handleEvent(SmallPods, MaxEvents))
    /\ [][(event'.object = Garbage /\ nEvents' >= 1)
            => (pods' = pods /\ log' = log)]_vars

\* C12 witness: an unparsable event came after an event that cached the pod
\* and delivered a result; the cache still holds the pod, nothing more was
\* delivered and the goroutine waits for the next event
C12_Witness ==
    /\ event.object = Garbage
    /\ event.type = "MODIFIED"
    /\ nEvents = 2
    /\ pods # <<>>
    /\ Len(log) = 1
    /\ cpc = "waiting"
    /\ pc["bg"] = "range"
    /\ fault = "none"

\* the background goroutine is through with a parsable event for a pod with
\* metadata: all of it was handled, without a fault
Settled ==
    /\ nEvents >= 1
    /\ event.object # Garbage
    /\ pod.meta
    /\ fault = "none"
    /\ pc["bg"] \notin {"send", "parked", "update"}

\* C13 as stated: a pod is in the cache from the first watch event received
\* for it, whatever the type of that event, until a Deleted event for it was
\* processed.
C13_CachedFromFirstEvent ==
    /\ (Settled /\ event.type # "DELETED") => lookup(pods, pod.name) = pod
    /\ (Settled /\ event.type = "DELETED") => pod.name \notin DOMAIN pods

\* C13, amended: a pod enters the cache at the initial listing or when a
\* Modified event for it was processed (an Added event caches nothing); every
\* processed Modified event leaves the event's record in the cache, whole,
\* also for a non-running or terminating pod; the pod leaves the cache
\* exactly when a Deleted event for it was processed, and nothing else
\* changes the cache.
C13_CacheLifecycle ==
    /\ []((Settled /\ event.type = "MODIFIED") => lookup(pods, pod.name) = pod)
    /\ []((Settled /\ event.type = "DELETED") => pod.name \notin DOMAIN pods)
    /\ [][pods' # pods
            => \/ pc["bg"] = "new" /\ nEvents = 0
               \/ pc["bg"] = "update" /\ event.type \in {"MODIFIED", "DELETED"}]_vars
    /\ [][\A n \in DOMAIN pods \ DOMAIN pods' :
            pc["bg"] = "update" /\ event.type = "DELETED" /\ pod.name = n]_vars
    /\ [][\A n \in DOMAIN pods' \ DOMAIN pods :
            \/ pc["bg"] = "new"
            \/ pc["bg"] = "update" /\ event.type = "MODIFIED" /\ pod.name = n]_vars

\* C13 witness: a Modified event for a cached pod, now not running, was
\* processed and the cache holds the event's record in place of the old one
C13_Witness ==
    /\ Settled
    /\ event.type = "MODIFIED"
    /\ pod.phase # podRunning
    /\ cache # NilPod
    /\ cache.phase = podRunning
    /\ pc["bg"] = "range"
    /\ lookup(pods, pod.name) = pod

\* C14: construction puts every pod of the initial listing into the cache
\* and hands none of the results computed for them to the channel: every
\* result pushed, and every result Next() returns, was caused by a watch
\* event.
C14_SeedingSilent ==
    /\ \A i \in 1..Len(results) : results[i].ev >= 1
    /\ \A i \in 1..Len(log) : log[i].ev >= 1
    /\ (nEvents = 0 /\ pc["bg"] # "new" /\ fault = "none")
          => IF pod = NilPod
             THEN pods = <<>>
             ELSE DOMAIN pods = {pod.name} /\ pods[pod.name] = pod

\* C14 witness: a pod with two decodable services was listed and cached, a
\* consumer waits in Next() and has been handed nothing
C14_Witness ==
    /\ nEvents = 0
    /\ pc["bg"] = "range"
    /\ pod # NilPod
    /\ Cardinality(Decodable(pod)) = 2
    /\ lookup(pods, pod.name) = pod
    /\ cpc = "waiting"
    /\ log = <<>>

\* C15: a Modified event for a non-running pod, handled without a fault,
\* pushes a delete for every decodable service-marker annotation of the
\* pod's cached snapshot, also for a key the event's annotations no longer
\* carry.
C15_NonRunningDeletesCached ==
    (/\ ModifiedHandled
     /\ pod.phase # podRunning
     /\ cache # NilPod
     /\ fault = "none")
    => \A k \in Decodable(cache) :
          \E i \in 1..Len(results) :
              results[i].Action = deleteAction /\ results[i].key = k

\* a record without key k in its annotations
Without(p, k) ==
    IF p = NilPod \/ ~p.meta
    THEN p
    ELSE [p EXCEPT !.ann = [j \in DOMAIN p.ann \ {k} |-> p.ann[j]]]

\* what a reconcile call of p against c comes to
Outcome(p, c) ==
    LET b == buildPodResults(p, c)
    IN  [panic |-> b.panic, seqs |-> IF b.panic THEN {} ELSE b.seqs, done |-> TRUE]

\* the call at hand returned a result for key k
Reported(k) == \E seq \in out.seqs : \E i \in 1..Len(seq) : seq[i].key = k

C17_NoMetadataNoFault ==
    (/\ pod # NilPod
     /\ ~pod.meta
     /\ event.type \in {"", "MODIFIED", "DELETED"})
    => (fault = "none" /\ results = <<>>)

\* C18: an event of a type other than Modified and Deleted, such as Added, is
\* ignored: it pushes no result, faults nothing and leaves the cache as it
\* was, so that a pod first reported by an Added event is neither cached nor
\* announced until a later event.
C18_OtherTypesIgnored ==
    /\ [](event.type = "ADDED"
            => /\ results = <<>>
               /\ fault = "none"
               /\ pc["bg"] \notin {"send", "parked", "update"})
    /\ [][event'.type = "ADDED" => (pods' = pods /\ log' = log)]_vars

\* C18 witness: the first event was an Added event for an unlisted pod with a
\* decodable service; the goroutine is back at the stream, the cache is
\* empty and the waiting consumer has been handed nothing
C18_Witness ==
    /\ nEvents = 1
    /\ event.type = "ADDED"
    /\ event.object # Garbage
    /\ pod.meta
    /\ Decodable(pod) # {}
    /\ pods = <<>>
    /\ pc["bg"] = "range"
    /\ cpc = "waiting"
    /\ log = <<>>

\* C19: in every interleaving of an external Stop() with the background
\* goroutine, the goroutine never sends on the channel once it is closed:
\* there is no send-on-closed-channel fault.
C19_NoSendOnClosed ==
    fault # "send on closed channel"

\* C20: with a consumer that pulls every result and no Stop(), once the
\* Deleted event of a pod is processed, every create or update delivered for
\* one of its service keys is followed by a delivered delete for that key.
C20_DeletedPodWithdrawn ==
    (/\ Settled
     /\ event.type = "DELETED"
     /\ pc["bg"] = "range"
     /\ pc["s1"] = "idle"
     /\ next = "open")
    => \A i \in 1..Len(log) :
          log[i].Action # deleteAction
             => \E j \in (i + 1)..Len(log) :
                   log[j].key = log[i].key /\ log[j].Action = deleteAction

====
